---- MODULE Spec2Model ----
(***************************************************************************)
(* Johnson's all-pairs shortest paths (src/src/main.rs) as a state machine. *)
(* One run of johnsons_algorithm on one input: the adjacency list is built, *)
(* bellman_ford relaxes edge by edge, the graph is reweighted, dijkstra is  *)
(* run from every vertex pop by pop, and each row is un-reweighted.         *)
(*                                                                         *)
(* Vec<i32> created by vec![x; n] is a function on 0..n-1; a Vec grown by   *)
(* push is a sequence; Option<T> is <<>> (None) or <<x>> (Some(x)); the     *)
(* BinaryHeap is a bag of State records and pop takes its Ord-greatest      *)
(* element.  Arithmetic stays far inside the i32 range for the inputs used. *)
(***************************************************************************)
EXTENDS Integers, Sequences, FiniteSets, Bags, TLC

\* ---------------------------------------------------------------- bounds
MaxNodes == 2
MaxEdges == 2
MaxWeight == 1

I32_MAX == 2147483647

\* ---------------------------------------------------------------- Option
None == <<>>
Some(x) == <<x>>
Unwrap(o) == o[1]

VARIABLES
    num_nodes,                 \* johnsons_algorithm argument
    edges,                     \* johnsons_algorithm argument
    ref,                       \* not program state: ReferenceOf the input
    pc,                        \* position in johnsons_algorithm / callees
    adj_list,                  \* Vec<Vec<Edge>>
    bf_dist,                   \* bellman_ford: dist
    round,                     \* bellman_ford: rounds of the outer loop begun
    changed,                   \* bellman_ford: changed
    bf_k,                      \* bellman_ford: next edge of the current round
    chk_k,                     \* bellman_ford: next edge of the check pass,
                               \*   0 while that pass has not begun
    bf_ret,                    \* bellman_ford: which return statement ran
    h,                         \* johnsons_algorithm: Option of the potentials
    reweighted_adj,            \* johnsons_algorithm: reweighted_adj
    src,                       \* johnsons_algorithm: u of the Dijkstra loop
    dj_dist,                   \* dijkstra: dist
    heap,                      \* dijkstra: heap
    cur,                       \* dijkstra: State { cost, position } popped
    discarded,                 \* dijkstra: the last pop hit `continue`
    expanded,                  \* dijkstra: times each vertex ran the edge loop
    all_pairs_shortest_paths,  \* johnsons_algorithm: rows pushed so far
    result                     \* "running", "Ok" or "Err"

vars == <<num_nodes, edges, ref, pc, adj_list, bf_dist, round, changed, bf_k,
          chk_k, bf_ret, h, reweighted_adj, src, dj_dist, heap, cur, discarded,
          expanded, all_pairs_shortest_paths, result>>

\* ---------------------------------------------------------------- inputs
ExampleEdges == << <<0, 1, -5>>, <<1, 2, 2>>, <<2, 0, 4>>, <<0, 2, 3>> >>

Weights == (0 - MaxWeight)..MaxWeight

EdgeTriples(n) == (0..(n - 1)) \X (0..(n - 1)) \X Weights

\* Edge lists grouped by source vertex: the adjacency list built from an edge
\* list depends only on the order of the edges that share a source.
EdgeLists(n) ==
    UNION {{es \in [1..k -> EdgeTriples(n)] :
               \A i \in 1..(k - 1) : es[i][1] <= es[i + 1][1]} : k \in 0..MaxEdges}

\* Inputs beside the bounded ones: the graph of main, a graph in which
\* dijkstra pushes a vertex twice, one in which two queued entries have the
\* same cost, and one with a zero-weight self-loop on a zero-weight cycle.
Scenarios ==
    {[num_nodes |-> 3, edges |-> ExampleEdges],
     [num_nodes |-> 3, edges |-> << <<0, 1, 1>>, <<0, 2, -1>>, <<2, 1, 1>> >>],
     [num_nodes |-> 3, edges |-> << <<0, 1, 0>>, <<0, 2, 0>> >>],
     [num_nodes |-> 2, edges |-> << <<0, 0, 0>>, <<0, 1, -1>>, <<1, 0, 1>> >>]}

\* ---------------------------------------------------------------- graph
RECURSIVE PushEdges(_, _, _)
PushEdges(adj, es, i) ==
    IF i > Len(es) THEN adj
    ELSE PushEdges([adj EXCEPT ![es[i][1]] =
                        Append(@, [to |-> es[i][2], weight |-> es[i][3]])],
                   es, i + 1)

BuildAdjList(n, es) == PushEdges([u \in 0..(n - 1) |-> <<>>], es, 1)

\* The edges in the order `for u in 0..num_nodes { for edge in &adj_list[u] }`
\* visits them.
RECURSIVE EdgeOrder(_, _, _)
EdgeOrder(adj, n, u) ==
    IF u >= n THEN <<>>
    ELSE [i \in 1..Len(adj[u]) |->
              [from |-> u, to |-> adj[u][i].to, weight |-> adj[u][i].weight]]
         \o EdgeOrder(adj, n, u + 1)

\* ---------------------------------------------------------------- Ord for State
CmpInt(a, b) == IF a < b THEN "Less" ELSE IF a > b THEN "Greater" ELSE "Equal"

StateCmpLowerFirst(self, other) ==
    IF CmpInt(other.cost, self.cost) # "Equal"
    THEN CmpInt(other.cost, self.cost)
    ELSE CmpInt(other.position, self.position)

StateCmp(self, other) ==
    IF CmpInt(other.cost, self.cost) # "Equal"
    THEN CmpInt(other.cost, self.cost)
    ELSE CmpInt(self.position, other.position)

\* BinaryHeap::pop: the greatest element of the heap
HeapPop(hp) ==
    CHOOSE s \in BagToSet(hp) : \A t \in BagToSet(hp) : StateCmp(s, t) # "Less"

HeapPush(hp, s) == hp (+) SetToBag({s})

\* ---------------------------------------------------------------- bellman_ford
BFInitMax(n) == [v \in 0..(n - 1) |-> I32_MAX]

BFInit(n) == [v \in 0..(n - 1) |-> 0]

NeverRelax(d, e) == FALSE

CanRelax(d, e) == d[e.from] # I32_MAX /\ d[e.from] + e.weight < d[e.to]

NoEarlyExit(c) == FALSE

EarlyExit(c) == ~c

\* ---------------------------------------------------------------- reweighting
NewWeightFlipped(w, hu, hv) == w - hu + hv

NewWeight(w, hu, hv) == w + hu - hv

Reweight(adj, n, pot) ==
    [u \in 0..(n - 1) |->
        [i \in 1..Len(adj[u]) |->
            [to |-> adj[u][i].to,
             weight |-> NewWeight(adj[u][i].weight, pot[u], pot[adj[u][i].to])]]]

UnreweightFlipped(d, hu, hv) == IF d = None THEN None ELSE Some(Unwrap(d) + hu - hv)

UnreweightZero(d, hu, hv) == IF d = None THEN Some(0) ELSE Some(Unwrap(d) - hu + hv)

Unreweight(d, hu, hv) == IF d = None THEN None ELSE Some(Unwrap(d) - hu + hv)

\* ---------------------------------------------------------------- dijkstra
DijkstraInitNoStart(n, start) == [v \in 0..(n - 1) |-> None]

DijkstraInit(n, start) == [v \in 0..(n - 1) |-> IF v = start THEN Some(0) ELSE None]

NeverStale(cost, d) == FALSE

IsStale(cost, d) == d # None /\ cost > Unwrap(d)

IsShorterFirstOnly(next_cost, d) == d = None

IsShorter(next_cost, d) == IF d # None THEN next_cost < Unwrap(d) ELSE TRUE

\* The edge loop of one expansion: returns the dist vector and the heap after
\* edges i.. of es have been relaxed from an entry of the given cost.
RECURSIVE RelaxAll(_, _, _, _, _)
RelaxAll(d, hp, cost, es, i) ==
    IF i > Len(es) THEN [dist |-> d, heap |-> hp]
    ELSE LET next_cost == cost + es[i].weight
         IN  IF IsShorter(next_cost, d[es[i].to])
             THEN RelaxAll([d EXCEPT ![es[i].to] = Some(next_cost)],
                           HeapPush(hp, [cost |-> next_cost, position |-> es[i].to]),
                           cost, es, i + 1)
             ELSE RelaxAll(d, hp, cost, es, i + 1)

\* ---------------------------------------------------------------- reference
\* Shortest paths stated directly on the edge list, by enumerating the simple
\* directed paths and cycles of the input graph.
WeightsOf(es, u, v) == {es[i][3] : i \in {j \in 1..Len(es) : es[j][1] = u /\ es[j][2] = v}}

MinOf(S) == CHOOSE m \in S : \A x \in S : m <= x

\* For one input: whether some simple cycle is negative in total, and the
\* least weight of a simple path from u to v (None when there is no path).
\* Parallel edges are separate edges, so a path takes the lightest of them.
ReferenceOf(n, es) ==
    LET V == 0..(n - 1)
        \* lightest edge from u to v, None when there is no such edge
        w == [u \in V |-> [v \in V |->
                 IF WeightsOf(es, u, v) = {} THEN None
                 ELSE Some(MinOf(WeightsOf(es, u, v)))]]
        \* sequences of distinct vertices, each joined to the next by an edge
        paths == {p \in UNION {[1..k -> V] : k \in 1..n} :
                     /\ \A i, j \in DOMAIN p : i # j => p[i] # p[j]
                     /\ \A i \in 1..(Len(p) - 1) : w[p[i]][p[i + 1]] # None}
        RECURSIVE Total(_, _)
        Total(p, i) ==
            IF i >= Len(p) THEN 0 ELSE Unwrap(w[p[i]][p[i + 1]]) + Total(p, i + 1)
    IN  [neg_cycle |->
            \E p \in paths :
                /\ w[p[Len(p)]][p[1]] # None
                /\ Total(p, 1) + Unwrap(w[p[Len(p)]][p[1]]) < 0,
         dist |->
            [u \in V |-> [v \in V |->
                LET ws == {Total(p, 1) :
                              p \in {q \in paths : q[1] = u /\ q[Len(q)] = v}}
                IN  IF ws = {} THEN None ELSE Some(MinOf(ws))]]]

\* ---------------------------------------------------------------- Init
Init ==
    /\ \/ \E n \in 0..MaxNodes : num_nodes = n /\ edges \in EdgeLists(n)
       \/ \E input \in Scenarios :
             num_nodes = input.num_nodes /\ edges = input.edges
    /\ ref = ReferenceOf(num_nodes, edges)
    /\ pc = "build"
    /\ adj_list = <<>>
    /\ bf_dist = <<>>
    /\ round = 0
    /\ changed = FALSE
    /\ bf_k = 1
    /\ chk_k = 0
    /\ bf_ret = "running"
    /\ h = None
    /\ reweighted_adj = <<>>
    /\ src = 0
    /\ dj_dist = <<>>
    /\ heap = EmptyBag
    /\ cur = [cost |-> 0, position |-> 0]
    /\ discarded = FALSE
    /\ expanded = <<>>
    /\ all_pairs_shortest_paths = <<>>
    /\ result = "running"

BFVars == <<bf_dist, round, changed, bf_k, chk_k, bf_ret>>
DJVars == <<dj_dist, heap, cur, discarded, expanded>>
InVars == <<num_nodes, edges, ref>>

\* ---------------------------------------------------------------- actions
\* main.rs 113-117 and the entry of bellman_ford (line 40)
Build ==
    /\ pc = "build"
    /\ adj_list' = BuildAdjList(num_nodes, edges)
    /\ bf_dist' = BFInit(num_nodes)
    /\ pc' = "bf_loop"
    /\ UNCHANGED <<InVars, round, changed, bf_k, chk_k, bf_ret, h, reweighted_adj, src,
                   DJVars, all_pairs_shortest_paths, result>>

\* `for _ in 0..num_nodes`: begin another round
BFRoundStart ==
    /\ pc = "bf_loop"
    /\ round < num_nodes
    /\ round' = round + 1
    /\ changed' = FALSE
    /\ bf_k' = 1
    /\ pc' = "bf_relax"
    /\ UNCHANGED <<InVars, adj_list, bf_dist, chk_k, bf_ret, h, reweighted_adj, src,
                   DJVars, all_pairs_shortest_paths, result>>

\* one evaluation of the `if` at line 47
BFRelax ==
    /\ pc = "bf_relax"
    /\ bf_k <= Len(EdgeOrder(adj_list, num_nodes, 0))
    /\ LET e == EdgeOrder(adj_list, num_nodes, 0)[bf_k]
       IN  IF CanRelax(bf_dist, e)
           THEN /\ bf_dist' = [bf_dist EXCEPT ![e.to] = bf_dist[e.from] + e.weight]
                /\ changed' = TRUE
           ELSE UNCHANGED <<bf_dist, changed>>
    /\ bf_k' = bf_k + 1
    /\ UNCHANGED <<InVars, pc, adj_list, round, chk_k, bf_ret, h, reweighted_adj, src,
                   DJVars, all_pairs_shortest_paths, result>>

\* lines 54-56: a round that changed nothing returns Some(dist)
BFEarlyReturn ==
    /\ pc = "bf_relax"
    /\ bf_k > Len(EdgeOrder(adj_list, num_nodes, 0))
    /\ EarlyExit(changed)
    /\ bf_ret' = "early"
    /\ h' = Some(bf_dist)
    /\ pc' = "reweight"
    /\ UNCHANGED <<InVars, adj_list, bf_dist, round, changed, bf_k, chk_k,
                   reweighted_adj, src, DJVars, all_pairs_shortest_paths, result>>

\* a round that changed something goes back to the loop head
BFRoundEnd ==
    /\ pc = "bf_relax"
    /\ bf_k > Len(EdgeOrder(adj_list, num_nodes, 0))
    /\ ~EarlyExit(changed)
    /\ pc' = "bf_loop"
    /\ UNCHANGED <<InVars, adj_list, BFVars, h, reweighted_adj, src, DJVars,
                   all_pairs_shortest_paths, result>>

\* the outer loop ran num_nodes rounds: go on to the check pass (line 60)
BFCheckStart ==
    /\ pc = "bf_loop"
    /\ round >= num_nodes
    /\ chk_k' = 1
    /\ pc' = "bf_check"
    /\ UNCHANGED <<InVars, adj_list, bf_dist, round, changed, bf_k, bf_ret, h,
                   reweighted_adj, src, DJVars, all_pairs_shortest_paths, result>>

\* one evaluation of the `if` at line 62; None is turned into Err at line 123
BFCheck ==
    /\ pc = "bf_check"
    /\ chk_k <= Len(EdgeOrder(adj_list, num_nodes, 0))
    /\ LET e == EdgeOrder(adj_list, num_nodes, 0)[chk_k]
       IN  IF CanRelax(bf_dist, e)
           THEN /\ bf_ret' = "negative_cycle"
                /\ result' = "Err"
                /\ pc' = "done"
                /\ chk_k' = chk_k
           ELSE /\ chk_k' = chk_k + 1
                /\ UNCHANGED <<bf_ret, result, pc>>
    /\ UNCHANGED <<InVars, adj_list, bf_dist, round, changed, bf_k, h,
                   reweighted_adj, src, DJVars, all_pairs_shortest_paths>>

\* line 69: the check pass found nothing
BFCheckReturn ==
    /\ pc = "bf_check"
    /\ chk_k > Len(EdgeOrder(adj_list, num_nodes, 0))
    /\ bf_ret' = "post_check"
    /\ h' = Some(bf_dist)
    /\ pc' = "reweight"
    /\ UNCHANGED <<InVars, adj_list, bf_dist, round, changed, bf_k, chk_k,
                   reweighted_adj, src, DJVars, all_pairs_shortest_paths, result>>

\* lines 126-140
ReweightGraph ==
    /\ pc = "reweight"
    /\ reweighted_adj' = Reweight(adj_list, num_nodes, Unwrap(h))
    /\ all_pairs_shortest_paths' = <<>>
    /\ src' = 0
    /\ pc' = "apsp_loop"
    /\ UNCHANGED <<InVars, adj_list, BFVars, h, DJVars, result>>

\* line 143 and lines 75-80: dijkstra(&reweighted_adj, u) is entered
DijkstraStart ==
    /\ pc = "apsp_loop"
    /\ src < num_nodes
    /\ dj_dist' = DijkstraInit(num_nodes, src)
    /\ heap' = HeapPush(EmptyBag, [cost |-> 0, position |-> src])
    /\ expanded' = [v \in 0..(num_nodes - 1) |-> 0]
    /\ discarded' = FALSE
    /\ pc' = "dijkstra"
    /\ UNCHANGED <<InVars, adj_list, BFVars, h, reweighted_adj, src, cur,
                   all_pairs_shortest_paths, result>>

\* one iteration of `while let Some(..) = heap.pop()` (lines 82-102)
DijkstraPop ==
    /\ pc = "dijkstra"
    /\ heap # EmptyBag
    /\ LET s == HeapPop(heap)
           rest == heap (-) SetToBag({s})
       IN  /\ cur' = s
           /\ IF IsStale(s.cost, dj_dist[s.position])
              THEN /\ discarded' = TRUE
                   /\ heap' = rest
                   /\ UNCHANGED <<dj_dist, expanded>>
              ELSE LET r == RelaxAll(dj_dist, rest, s.cost,
                                     reweighted_adj[s.position], 1)
                   IN  /\ discarded' = FALSE
                       /\ dj_dist' = r.dist
                       /\ heap' = r.heap
                       /\ expanded' = [expanded EXCEPT ![s.position] = @ + 1]
    /\ UNCHANGED <<InVars, pc, adj_list, BFVars, h, reweighted_adj, src,
                   all_pairs_shortest_paths, result>>

\* the heap is empty: dijkstra returns dist, lines 145-155 push the row
DijkstraReturn ==
    /\ pc = "dijkstra"
    /\ heap = EmptyBag
    /\ all_pairs_shortest_paths' =
          Append(all_pairs_shortest_paths,
                 [v \in 0..(num_nodes - 1) |->
                     Unreweight(dj_dist[v], Unwrap(h)[src], Unwrap(h)[v])])
    /\ src' = src + 1
    /\ pc' = "apsp_loop"
    /\ UNCHANGED <<InVars, adj_list, BFVars, h, reweighted_adj, DJVars, result>>

\* line 158
ReturnOk ==
    /\ pc = "apsp_loop"
    /\ src >= num_nodes
    /\ result' = "Ok"
    /\ pc' = "done"
    /\ UNCHANGED <<InVars, adj_list, BFVars, h, reweighted_adj, src, DJVars,
                   all_pairs_shortest_paths>>

Next ==
    \/ Build
    \/ BFRoundStart
    \/ BFRelax
    \/ BFEarlyReturn
    \/ BFRoundEnd
    \/ BFCheckStart
    \/ BFCheck
    \/ BFCheckReturn
    \/ ReweightGraph
    \/ DijkstraStart
    \/ DijkstraPop
    \/ DijkstraReturn
    \/ ReturnOk

Spec == Init /\ [][Next]_vars

\* ---------------------------------------------------------------- claims
Vertices == 0..(num_nodes - 1)

EdgeSet == {edges[i] : i \in 1..Len(edges)}

HasNegativeCycle == ref.neg_cycle

ShortestDist(u, v) == ref.dist[u][v]

Entry(u, v) == all_pairs_shortest_paths[u + 1][v]

AllEdges == EdgeOrder(adj_list, num_nodes, 0)

ReweightedEdges == EdgeOrder(reweighted_adj, num_nodes, 0)

InBellmanFord == pc \in {"bf_loop", "bf_relax", "bf_check"}

\* C1: without a negative cycle johnsons_algorithm returns Ok with num_nodes
\* rows of num_nodes entries, entry (u,v) being the least total weight of a
\* directed path from u to v, or None when there is none; the example graph
\* of main yields the distances listed in the specification.
C1_ShortestPaths ==
    (pc = "done" /\ ~HasNegativeCycle) =>
        /\ result = "Ok"
        /\ Len(all_pairs_shortest_paths) = num_nodes
        /\ \A u \in Vertices :
              /\ DOMAIN all_pairs_shortest_paths[u + 1] = Vertices
              /\ \A v \in Vertices : Entry(u, v) = ShortestDist(u, v)
        /\ (num_nodes = 3 /\ edges = ExampleEdges) =>
              /\ Entry(0, 1) = Some(-5) /\ Entry(0, 2) = Some(-3)
              /\ Entry(1, 2) = Some(2)  /\ Entry(2, 0) = Some(4)
              /\ Entry(2, 1) = Some(-1) /\ Entry(1, 0) = Some(6)
              /\ \A v \in Vertices : Entry(v, v) = Some(0)

C1_Witness ==
    /\ pc = "done" /\ result = "Ok"
    /\ num_nodes = 3 /\ edges = ExampleEdges
    /\ Entry(2, 1) = Some(-1)

\* C2: with a negative cycle in the input, bellman_ford returns None and the
\* run ends in the error: no potentials, no reweighted graph, no Dijkstra run
\* and no row of distances exist at any point of the run.
C2_NegativeCycleAborts ==
    HasNegativeCycle =>
        /\ h = None
        /\ bf_ret \in {"running", "negative_cycle"}
        /\ pc \in {"build", "bf_loop", "bf_relax", "bf_check", "done"}
        /\ reweighted_adj = <<>> /\ dj_dist = <<>> /\ heap = EmptyBag
        /\ all_pairs_shortest_paths = <<>>
        /\ pc = "done" => (result = "Err" /\ bf_ret = "negative_cycle")

C2_Witness ==
    /\ pc = "done" /\ result = "Err"
    /\ num_nodes = 2 /\ edges = << <<0, 1, -1>>, <<1, 0, -1>> >>

\* C3: whenever bellman_ford has returned potentials h, by either return,
\* every edge (u,v,w) has w + h[u] - h[v] >= 0, and every weight of the
\* reweighted adjacency list is non-negative.
C3_ReweightedNonNegative ==
    h # None =>
        /\ \A k \in 1..Len(AllEdges) :
              AllEdges[k].weight + Unwrap(h)[AllEdges[k].from]
                  - Unwrap(h)[AllEdges[k].to] >= 0
        /\ pc # "reweight" =>
              /\ Len(ReweightedEdges) = Len(AllEdges)
              /\ \A k \in 1..Len(ReweightedEdges) : ReweightedEdges[k].weight >= 0

C3_Witness ==
    /\ pc = "apsp_loop" /\ h # None
    /\ \E k \in 1..Len(AllEdges) :
          AllEdges[k].weight < 0 /\ ReweightedEdges[k].weight = 0
    /\ \E k \in 1..Len(AllEdges) : ReweightedEdges[k].weight > AllEdges[k].weight

\* C4: in a returned matrix every diagonal entry is Some(0), also for a
\* vertex on a zero-weight cycle or with a zero-weight self-loop.
C4_SelfDistanceZero ==
    result = "Ok" => \A v \in Vertices : Entry(v, v) = Some(0)

C4_Witness ==
    /\ result = "Ok"
    /\ \E v \in Vertices : <<v, v, 0>> \in EdgeSet /\ Entry(v, v) = Some(0)
    /\ \E u, v \in Vertices :
          /\ u # v
          /\ \E a, b \in EdgeSet :
                a[1] = u /\ a[2] = v /\ b[1] = v /\ b[2] = u /\ a[3] + b[3] = 0
                   /\ a[3] # 0

\* C5: in a returned matrix, when (u,v) and (v,w) are Some then (u,w) is Some
\* and is at most their sum.
C5_Triangle ==
    result = "Ok" =>
        \A u, v, w \in Vertices :
            (Entry(u, v) # None /\ Entry(v, w) # None) =>
                /\ Entry(u, w) # None
                /\ Unwrap(Entry(u, w)) <= Unwrap(Entry(u, v)) + Unwrap(Entry(v, w))

C5_Witness ==
    /\ result = "Ok"
    /\ \E u, v, w \in Vertices :
          /\ u # v /\ v # w /\ u # w
          /\ Entry(u, v) # None /\ Entry(v, w) # None /\ Entry(u, w) # None
          /\ Unwrap(Entry(u, w)) < Unwrap(Entry(u, v)) + Unwrap(Entry(v, w))
          /\ Unwrap(Entry(u, v)) < 0

\* C6: a pushed row has None at v exactly when the input graph has no directed
\* path from its source to v, and exactly when dijkstra left dist[v] at None.
C6_NoneIffUnreachable ==
    \A u \in Vertices :
        u < Len(all_pairs_shortest_paths) =>
            \A v \in Vertices :
                /\ (Entry(u, v) = None) <=> (ShortestDist(u, v) = None)
                /\ (u = src - 1 /\ pc = "apsp_loop") =>
                      ((Entry(u, v) = None) <=> (dj_dist[v] = None))

C6_Witness ==
    /\ result = "Ok"
    /\ \E u, v \in Vertices :
          /\ Entry(u, v) = None /\ Entry(v, u) # None
          /\ Unwrap(h)[u] # Unwrap(h)[v]

\* C7 as stated: the popped entry has the least cost of the queue and, among
\* the entries of that cost, the lowest vertex index.
C7_LowerIndexFirst ==
    [][(pc = "dijkstra" /\ heap # EmptyBag) =>
          \A t \in BagToSet(heap) :
              \/ cur'.cost < t.cost
              \/ cur'.cost = t.cost /\ cur'.position <= t.position]_vars

\* C7 as the code has it: the popped entry has the least cost of the queue
\* and, among the entries of that cost, the highest vertex index.
C7_HigherIndexFirst ==
    [][(pc = "dijkstra" /\ heap # EmptyBag) =>
          /\ cur' \in BagToSet(heap)
          /\ \A t \in BagToSet(heap) :
                \/ cur'.cost < t.cost
                \/ cur'.cost = t.cost /\ cur'.position >= t.position]_vars

C7_Witness ==
    /\ pc = "dijkstra" /\ ~discarded
    /\ expanded[cur.position] = 1
    /\ reweighted_adj[cur.position] = <<>>
    /\ \E t \in BagToSet(heap) : t.cost = cur.cost /\ t.position < cur.position

\* C8 as stated: bellman_ford returns potentials only after a full check pass
\* over all edges.
C8_AlwaysVerified ==
    h # None => (bf_ret = "post_check" /\ chk_k = Len(AllEdges) + 1)

\* C8 as the code has it: the loop ends at the first round that changes
\* nothing, and then the potentials are returned at once with no further
\* pass, or after num_nodes rounds, and only then the check pass runs before
\* a return; under returned potentials no edge can be relaxed.
C8_EarlyReturnSkipsCheck ==
    /\ (pc = "bf_loop" /\ round > 0) => changed
    /\ bf_ret = "early" =>
          /\ ~changed /\ round \in 1..num_nodes
          /\ bf_k = Len(AllEdges) + 1 /\ chk_k = 0
    /\ (pc = "bf_check" \/ bf_ret \in {"post_check", "negative_cycle"}) =>
          /\ round = num_nodes /\ chk_k >= 1
          /\ num_nodes > 0 => changed
    /\ bf_ret = "post_check" => chk_k = Len(AllEdges) + 1
    /\ h # None =>
          /\ bf_ret \in {"early", "post_check"}
          /\ \A k \in 1..Len(AllEdges) :
                Unwrap(h)[AllEdges[k].from] + AllEdges[k].weight
                    >= Unwrap(h)[AllEdges[k].to]

C8_Witness ==
    /\ bf_ret = "early" /\ pc = "reweight" /\ round > 1 /\ chk_k = 0
    /\ \E v \in Vertices : Unwrap(h)[v] < 0

\* C9: in a dijkstra run over non-negative weights every vertex runs its edge
\* loop at most once; a popped entry is discarded exactly when its cost is
\* above the recorded distance of its vertex, and is otherwise the entry of
\* that distance; a recorded distance never changes once its vertex has been
\* expanded; every pop brings the run closer to its end, and the run returns
\* only with the queue empty, each reached vertex expanded exactly once.
NonNegative == \A k \in 1..Len(ReweightedEdges) : ReweightedEdges[k].weight >= 0

\* entries queued, plus the entries the vertices not yet expanded may still push
Remaining(hp, ex) ==
    BagCardinality(hp)
        + Len(EdgeOrder([v \in Vertices |->
                            IF ex[v] = 0 THEN reweighted_adj[v] \o <<[to |-> v, weight |-> 0]>>
                            ELSE <<>>], num_nodes, 0))

C9_ExpandedOnce ==
    /\ [](pc = "dijkstra" /\ NonNegative => \A v \in Vertices : expanded[v] <= 1)
    /\ [][(pc = "dijkstra" /\ NonNegative) =>
            IF heap # EmptyBag
            THEN /\ cur' \in BagToSet(heap)
                 /\ dj_dist[cur'.position] # None
                 /\ discarded' <=> cur'.cost > Unwrap(dj_dist[cur'.position])
                 /\ discarded' =>
                       /\ dj_dist' = dj_dist /\ expanded' = expanded
                       /\ heap' = heap (-) SetToBag({cur'})
                 /\ ~discarded' =>
                       /\ cur'.cost = Unwrap(dj_dist[cur'.position])
                       /\ expanded[cur'.position] = 0
                       /\ expanded'[cur'.position] = 1
                 /\ \A v \in Vertices : expanded[v] >= 1 => dj_dist'[v] = dj_dist[v]
                 /\ Remaining(heap', expanded') < Remaining(heap, expanded)
            ELSE /\ pc' = "apsp_loop"
                 /\ Len(all_pairs_shortest_paths') = Len(all_pairs_shortest_paths) + 1
                 /\ \A v \in Vertices : (expanded[v] = 1) <=> (dj_dist[v] # None)]_vars

C9_Witness ==
    /\ pc = "dijkstra" /\ discarded /\ NonNegative
    /\ expanded[cur.position] = 1
    /\ cur.cost > Unwrap(dj_dist[cur.position])

\* C10: throughout bellman_ford every working distance is at most 0 and no
\* step raises one, so returned potentials are at most 0 and the vertex read by
\* each evaluation of the guard `dist[u] != i32::MAX` is not at i32::MAX.
C10_DistNonPositive ==
    /\ [](/\ InBellmanFord => \A v \in Vertices : bf_dist[v] <= 0
          /\ (pc = "bf_relax" /\ bf_k <= Len(AllEdges)) =>
                bf_dist[AllEdges[bf_k].from] # I32_MAX
          /\ (pc = "bf_check" /\ chk_k <= Len(AllEdges)) =>
                bf_dist[AllEdges[chk_k].from] # I32_MAX
          /\ h # None => \A v \in Vertices : Unwrap(h)[v] <= 0)
    /\ [][InBellmanFord => \A v \in Vertices : bf_dist'[v] <= bf_dist[v]]_vars

C10_Witness ==
    /\ pc = "bf_check" /\ chk_k = 2
    /\ \E v \in Vertices : bf_dist[v] < -1

====
